---- MODULE Spec2Model ----
(***************************************************************************)
(* Model of APool (src/src/apool.cpp): the thread-local registry of named  *)
(* connection pools, the two acquisition entry points, the shared_ptr      *)
(* deleter that routes a driver back through pushDatabaseBack, and the     *)
(* configuration setters.                                                  *)
(*                                                                         *)
(* A callback (continuation, setup hook, reuse hook) is user code that may *)
(* call any operation of APool.  Every handler only drops its local        *)
(* ADatabase after the callback returns, so a callback that keeps a copy   *)
(* of the handle leaves the same state as "the local owner is still        *)
(* there": the handle handed to a callback is modelled with one owner and  *)
(* what the callback does with it is CopyHandle / DropHandle.  The setup    *)
(* and reuse hooks are taken not to call back into APool.                  *)
(***************************************************************************)
EXTENDS Integers, Sequences, FiniteSets, TLC

\* ---- bounds of the model ----
MaxDrivers == 2
MaxHandles == 3
MaxOwners == 2
MaxRequests == 2
MaxLimit == 1
MaxInstances == 2
MaxOps == 5

Names == {"p1", "p2"}
Factories == {"f1", "f2"}
Receivers == {"r1"}
NullReceiver == "nullptr"
NullDriver == 0
DriverStates == {"Disconnected", "Connected"}
\* the int arguments of setMaxIdleConnections / setMaxConnections
Limits == {-1} \cup (0 .. MaxLimit)

DriverIds == 1 .. MaxDrivers
HandleIds == 1 .. MaxHandles
RequestIds == 1 .. MaxRequests

VARIABLES
    m_connectionPool,   \* QHash<QString, APoolInternal>: a function on the registered names
    drivers,            \* every ADriver the factories may create: allocation status, home pool and pool instance
    handles,            \* every ADatabase::d control block: driver, deleter's pool name, owners
    alive,              \* the QObject receivers not yet destroyed
    requests,           \* ghost: what happened to each callback-style acquisition
    instance,           \* ghost: how many APoolInternal objects each name has had so far
    nOps                \* ghost: how many calls have been made so far

vars == <<m_connectionPool, drivers, handles, alive, requests, instance, nOps>>

\* ---- values ----
NoDriver == [status |-> "none", home |-> "", origin |-> 0]
NoHandle == [status |-> "unused", d |-> NullDriver, poolName |-> "", owners |-> 0, inst |-> 0,
             runs |-> 0]
Deleted == [status |-> "deleted", home |-> "", origin |-> 0]
NoRequest == [status |-> "unused", handle |-> 0]

\* struct APoolInternal with its default member initialisers
APoolInternal(factory) ==
    [driverFactory |-> factory,
     pool |-> <<>>,
     connectionQueue |-> <<>>,
     setupCb |-> FALSE,
     reuseCb |-> FALSE,
     maxIdleConnections |-> 1,
     maximuConnections |-> 0,
     connectionCount |-> 0]

\* struct APoolQueuedClient (req is the ghost identity of the acquisition)
APoolQueuedClient(cb, receiver, req) ==
    [cb |-> cb, receiver |-> receiver, checkReceiver |-> (receiver # NullReceiver), req |-> req]

Min(S) == IF S = {} THEN 0 ELSE CHOOSE x \in S : \A y \in S : x <= y

UnusedDrivers(drv) == {i \in DriverIds : drv[i].status = "none"}
UnusedHandles(hnd) == {i \in HandleIds : hnd[i].status = "unused"}
UnusedRequests(req) == {i \in RequestIds : req[i].status = "unused"}

\* the next object the allocator / the caller produces
FreshDriver(drv) == Min(UnusedDrivers(drv))
FreshHandle(hnd) == Min(UnusedHandles(hnd))
FreshRequest(req) == Min(UnusedRequests(req))

\* the part of the state the handlers change, passed through the calls they make
Now == [mp |-> m_connectionPool, drv |-> drivers, hnd |-> handles, req |-> requests]

\* std::shared_ptr<ADriver>(driver, [poolName](ADriver *driver) { pushDatabaseBack(poolName, driver); })
SharedPtr(driver, poolName) ==
    [status |-> "held", d |-> driver, poolName |-> poolName, owners |-> 1,
     inst |-> instance[poolName], runs |-> 0]

\* mutant: the receiver is not looked at, only the continuation
SkippedIgnoresReceiver(client) == ~client.cb

\* (client.checkReceiver && client.receiver.isNull()) || !client.cb
Skipped(client) == (client.checkReceiver /\ client.receiver \notin alive) \/ ~client.cb

\* mutant: the newest waiter that is not skipped is served (LIFO)
RECURSIVE FirstValidNewest(_, _)
FirstValidNewest(q, i) ==
    IF i > Len(q) THEN 0
    ELSE IF FirstValidNewest(q, i + 1) > 0 THEN FirstValidNewest(q, i + 1)
    ELSE IF ~Skipped(q[i]) THEN i
    ELSE 0

\* the while loop of pushDatabaseBack: position of the first client that is not skipped, 0 if none
RECURSIVE FirstValid(_, _)
FirstValid(q, i) ==
    IF i > Len(q) THEN 0
    ELSE IF ~Skipped(q[i]) THEN i
    ELSE FirstValid(q, i + 1)

\* client.checkReceiver && client.receiver.isNull()
Expired(client) == client.checkReceiver /\ client.receiver \notin alive

\* ghost bookkeeping of the loop: the clients dequeued before position k were discarded,
\* "expired" for a null receiver and "dropped" otherwise
Discard(req, q, k) ==
    [w \in RequestIds |->
        IF \E i \in 1 .. (k - 1) : q[i].req = w /\ Expired(q[i])
        THEN [req[w] EXCEPT !.status = "expired"]
        ELSE IF \E i \in 1 .. (k - 1) : q[i].req = w
        THEN [req[w] EXCEPT !.status = "dropped"]
        ELSE req[w]]

\* pushDatabaseBack, a waiter found: wrap the driver again and call client.cb(db)
HandOver(s, connectionName, driver, k) ==
    LET q == s.mp[connectionName].connectionQueue
        h == FreshHandle(s.hnd)
    IN [s EXCEPT !.mp[connectionName].connectionQueue = SubSeq(q, k + 1, Len(q)),
                 !.req = [Discard(s.req, q, k) EXCEPT
                             ![q[k].req] = [status |-> "handed", handle |-> h]],
                 !.hnd[h] = SharedPtr(driver, connectionName)]

\* mutant: the idle vector may grow one past maxIdleConnections (> for >=)
ReturnToPoolOffByOne(s, connectionName, driver) ==
    IF Len(s.mp[connectionName].pool) > s.mp[connectionName].maxIdleConnections
    THEN [s EXCEPT !.drv[driver] = Deleted,
                   !.mp[connectionName].connectionCount = @ - 1]
    ELSE [s EXCEPT !.mp[connectionName].pool = Append(@, driver)]

\* mutant: the idle vector is treated as full one driver early
ReturnToPoolEarly(s, connectionName, driver) ==
    IF Len(s.mp[connectionName].pool) + 1 >= s.mp[connectionName].maxIdleConnections
    THEN [s EXCEPT !.drv[driver] = Deleted,
                   !.mp[connectionName].connectionCount = @ - 1]
    ELSE [s EXCEPT !.mp[connectionName].pool = Append(@, driver)]

\* mutant: the deleted driver is pushed back all the same (the else is lost)
ReturnToPoolDangling(s, connectionName, driver) ==
    IF Len(s.mp[connectionName].pool) >= s.mp[connectionName].maxIdleConnections
    THEN [s EXCEPT !.drv[driver] = Deleted,
                   !.mp[connectionName].connectionCount = @ - 1,
                   !.mp[connectionName].pool = Append(@, driver)]
    ELSE [s EXCEPT !.mp[connectionName].pool = Append(@, driver)]

\* mutant: the driver over the idle limit is deleted but connectionCount keeps counting it
ReturnToPoolNoDecrement(s, connectionName, driver) ==
    IF Len(s.mp[connectionName].pool) >= s.mp[connectionName].maxIdleConnections
    THEN [s EXCEPT !.drv[driver] = Deleted]
    ELSE [s EXCEPT !.mp[connectionName].pool = Append(@, driver)]

\* pushDatabaseBack, no waiter found: delete the driver or push it back on the idle vector
ReturnToPool(s, connectionName, driver) ==
    IF Len(s.mp[connectionName].pool) >= s.mp[connectionName].maxIdleConnections
    THEN [s EXCEPT !.drv[driver] = Deleted,
                   !.mp[connectionName].connectionCount = @ - 1]
    ELSE [s EXCEPT !.mp[connectionName].pool = Append(@, driver)]

\* mutant: the queue is scanned before driver->state() is looked at
PushDatabaseBackWaiterFirst(s, connectionName, driver, st) ==
    IF connectionName \in DOMAIN s.mp
    THEN LET q == s.mp[connectionName].connectionQueue
             k == FirstValid(q, 1)
         IN IF k > 0
            THEN HandOver(s, connectionName, driver, k)
            ELSE IF st = "Disconnected"
            THEN [s EXCEPT !.drv[driver] = Deleted,
                           !.mp[connectionName].connectionCount = @ - 1]
            ELSE ReturnToPool([s EXCEPT !.mp[connectionName].connectionQueue = <<>>,
                                        !.req = Discard(s.req, q, Len(q) + 1)],
                              connectionName, driver)
    ELSE [s EXCEPT !.drv[driver] = Deleted]

\* APool::pushDatabaseBack(connectionName, driver); st is what driver->state() returns
PushDatabaseBack(s, connectionName, driver, st) ==
    IF connectionName \in DOMAIN s.mp
    THEN LET q == s.mp[connectionName].connectionQueue
             k == FirstValid(q, 1)
         IN IF st = "Disconnected"
            THEN [s EXCEPT !.drv[driver] = Deleted,
                           !.mp[connectionName].connectionCount = @ - 1]
            ELSE IF k > 0
            THEN HandOver(s, connectionName, driver, k)
            ELSE ReturnToPool([s EXCEPT !.mp[connectionName].connectionQueue = <<>>,
                                        !.req = Discard(s.req, q, Len(q) + 1)],
                              connectionName, driver)
    ELSE [s EXCEPT !.drv[driver] = Deleted]

\* pushDatabaseBack would construct a new ADatabase for a waiter
WouldHandOff(s, connectionName, st) ==
    /\ connectionName \in DOMAIN s.mp
    /\ st # "Disconnected"
    /\ FirstValid(s.mp[connectionName].connectionQueue, 1) > 0

\* mutant: one connection more than maximuConnections is let through (> for >=)
AtCapacityOffByOne(iPool) ==
    iPool.maximuConnections # 0 /\ iPool.connectionCount > iPool.maximuConnections

\* iPool.maximuConnections && iPool.connectionCount >= iPool.maximuConnections
AtCapacity(iPool) ==
    iPool.maximuConnections # 0 /\ iPool.connectionCount >= iPool.maximuConnections

\* mutant: last() for takeLast(): the driver stays in the vector
TakeLastKept(pool) == pool

\* iPool.pool.takeLast(): what stays in the vector
TakeLast(pool) == SubSeq(pool, 1, Len(pool) - 1)

\* the acquisition would call driverFactory->createRawDriver()
NeedsDriver(s, poolName) ==
    /\ poolName \in DOMAIN s.mp
    /\ s.mp[poolName].pool = <<>>
    /\ ~AtCapacity(s.mp[poolName])

\* the acquisition would construct a shared_ptr (it reuses or creates a driver)
NeedsHandle(s, poolName) ==
    /\ poolName \in DOMAIN s.mp
    /\ ~(s.mp[poolName].pool = <<>> /\ AtCapacity(s.mp[poolName]))

\* mutant: the callback overload never enqueues, it falls through as the synchronous one does
WouldQueueNever(s, poolName) == FALSE

\* the branch of the callback overload that enqueues and returns
WouldQueue(s, poolName) ==
    /\ poolName \in DOMAIN s.mp
    /\ s.mp[poolName].pool = <<>>
    /\ AtCapacity(s.mp[poolName])

\* mutant: connectionCount is incremented before the capacity test, also when refused
AcquireCountsRefusal(s, poolName, h) ==
    IF poolName \in DOMAIN s.mp
    THEN LET iPool == s.mp[poolName]
         IN IF iPool.pool = <<>>
            THEN IF AtCapacity(iPool)
                 THEN [s EXCEPT !.mp[poolName].connectionCount = @ + 1]
                 ELSE LET driver == FreshDriver(s.drv)
                      IN [s EXCEPT !.mp[poolName].connectionCount = @ + 1,
                                   !.drv[driver] = [status |-> "live", home |-> poolName,
                                                    origin |-> instance[poolName]],
                                   !.hnd[h] = SharedPtr(driver, poolName)]
            ELSE LET driver == iPool.pool[Len(iPool.pool)]
                 IN [s EXCEPT !.mp[poolName].pool = TakeLast(@),
                              !.hnd[h] = SharedPtr(driver, poolName)]
    ELSE s

\* The body both overloads of APool::database share: reuse, create, or leave db.d unset;
\* h is the control block of the ADatabase that results.  (db.open() acts on the driver
\* alone; the pool sees it only through driver->state() at the release.)
Acquire(s, poolName, h) ==
    IF poolName \in DOMAIN s.mp
    THEN LET iPool == s.mp[poolName]
         IN IF iPool.pool = <<>>
            THEN IF AtCapacity(iPool)
                 THEN s
                 ELSE LET driver == FreshDriver(s.drv)
                      IN [s EXCEPT !.mp[poolName].connectionCount = @ + 1,
                                   !.drv[driver] = [status |-> "live", home |-> poolName,
                                                    origin |-> instance[poolName]],
                                   !.hnd[h] = SharedPtr(driver, poolName)]
            ELSE LET driver == iPool.pool[Len(iPool.pool)]
                 IN [s EXCEPT !.mp[poolName].pool = TakeLast(@),
                              !.hnd[h] = SharedPtr(driver, poolName)]
    ELSE s

\* mutant: every owner that goes runs the deleter
LastOwnerAny(s, h) == TRUE

\* use_count() drops to zero when this owner goes
LastOwner(s, h) == s.hnd[h].owners = 1

\* The control block h is destroyed: its deleter runs.
Destroy(s, h, st) ==
         PushDatabaseBack(
             [s EXCEPT !.hnd[h] = [NoHandle EXCEPT !.status = "released",
                                                   !.runs = s.hnd[h].runs + 1]],
             s.hnd[h].poolName, s.hnd[h].d, st)

\* ~shared_ptr / reset() of one owner of control block h
Reset(s, h, st) ==
    IF LastOwner(s, h) THEN Destroy(s, h, st)
    ELSE [s EXCEPT !.hnd[h].owners = @ - 1]

\* the handler's result becomes the next state; the call counts against the MaxOps
\* calls the model explores
Commit(s) ==
    /\ nOps < MaxOps
    /\ nOps' = nOps + 1
    /\ m_connectionPool' = s.mp
    /\ drivers' = s.drv
    /\ handles' = s.hnd
    /\ requests' = s.req

\* ---- operations ----

\* mutant: insert without the contains() test: a registered pool is replaced by a new one
CreateOverwrite(factory, poolName) ==
    /\ Commit([Now EXCEPT !.mp = (poolName :> APoolInternal(factory)) @@ m_connectionPool])
    /\ UNCHANGED <<alive, instance>>

\* APool::create(factory, poolName) (addDatabase forwards to it)
Create(factory, poolName) ==
    IF poolName \notin DOMAIN m_connectionPool
    THEN /\ instance[poolName] < MaxInstances
         /\ Commit([Now EXCEPT !.mp = (poolName :> APoolInternal(factory)) @@ m_connectionPool])
         /\ instance' = [instance EXCEPT ![poolName] = @ + 1]
         /\ UNCHANGED alive
    ELSE /\ Commit(Now)
         /\ UNCHANGED <<alive, instance>>

\* QHash::remove: the APoolInternal is destroyed with its vector of raw pointers and its queue
Erase(s, poolName) ==
    IF poolName \in DOMAIN s.mp
    THEN LET q == s.mp[poolName].connectionQueue
         IN [s EXCEPT !.mp = [n \in (DOMAIN s.mp) \ {poolName} |-> s.mp[n]],
                      !.req = Discard(s.req, q, Len(q) + 1)]
    ELSE s

\* APool::remove(poolName)
Remove(poolName) ==
    /\ Commit(Erase(Now, poolName))
    /\ UNCHANGED <<alive, instance>>

\* ADatabase APool::database(poolName)
Database(poolName) ==
    /\ NeedsHandle(Now, poolName) => UnusedHandles(handles) # {}
    /\ NeedsDriver(Now, poolName) => UnusedDrivers(drivers) # {}
    /\ Commit(Acquire(Now, poolName, FreshHandle(handles)))
    /\ UNCHANGED <<alive, instance>>

\* The callback overload after its body: cb(db) if cb is set, then the local db goes.
\* (A db whose d was never set has no control block: handle 0 stands for it.)
Deliver(s, cb, w, h, st) ==
    LET got == IF h # 0 /\ s.hnd[h].status = "held" THEN h ELSE 0
    IN IF cb THEN [s EXCEPT !.req[w] = [status |-> "invoked", handle |-> got]]
       ELSE [(IF got = 0 THEN s ELSE Reset(s, h, st)) EXCEPT
                !.req[w] = [status |-> "dropped", handle |-> 0]]

\* void APool::database(cb, receiver, poolName)
DatabaseCb(cb, receiver, poolName, st) ==
    /\ UnusedRequests(requests) # {}
    /\ LET w == FreshRequest(requests)
           h == FreshHandle(handles)
       IN IF WouldQueue(Now, poolName)
          THEN Commit([Now EXCEPT !.mp[poolName].connectionQueue =
                                      Append(@, APoolQueuedClient(cb, receiver, w)),
                                  !.req[w] = [status |-> "queued", handle |-> 0]])
          ELSE /\ NeedsHandle(Now, poolName)
                     => Cardinality(UnusedHandles(handles))
                           >= (IF ~cb /\ WouldHandOff(Now, poolName, st) THEN 2 ELSE 1)
               /\ NeedsDriver(Now, poolName) => UnusedDrivers(drivers) # {}
               /\ Commit(Deliver(Acquire(Now, poolName, h), cb, w, h, st))
    /\ UNCHANGED <<alive, instance>>

\* a copy of an ADatabase: one more owner of the control block
CopyHandle(h) ==
    /\ handles[h].status = "held"
    /\ handles[h].owners < MaxOwners
    /\ Commit([Now EXCEPT !.hnd[h].owners = @ + 1])
    /\ UNCHANGED <<alive, instance>>

\* an owner drops its ADatabase; the last one runs the deleter
DropHandle(h, st) ==
    /\ handles[h].status = "held"
    /\ (LastOwner(Now, h) /\ WouldHandOff(Now, handles[h].poolName, st))
          => UnusedHandles(handles) # {}
    /\ Commit(Reset(Now, h, st))
    /\ UNCHANGED <<alive, instance>>

\* mutant: operator[] for find(): a name that is not registered gets a default pool
AssignAutoCreate(s, poolName, member, value) ==
    IF poolName \in DOMAIN s.mp
    THEN [s EXCEPT !.mp[poolName] = [@ EXCEPT ![member] = value]]
    ELSE [s EXCEPT !.mp = (poolName :> [APoolInternal("f1") EXCEPT ![member] = value]) @@ s.mp]

\* the four setters: assign one member of the named APoolInternal, or only log
Assign(s, poolName, member, value) ==
    IF poolName \in DOMAIN s.mp
    THEN [s EXCEPT !.mp[poolName] = [@ EXCEPT ![member] = value]]
    ELSE s

\* APool::setMaxIdleConnections(max, poolName) (setDatabaseMaxIdleConnections forwards to it)
SetMaxIdleConnections(max, poolName) ==
    /\ Commit(Assign(Now, poolName, "maxIdleConnections", max))
    /\ UNCHANGED <<alive, instance>>

\* APool::setMaxConnections(max, poolName) (setDatabaseMaximumConnections forwards to it)
SetMaxConnections(max, poolName) ==
    /\ Commit(Assign(Now, poolName, "maximuConnections", max))
    /\ UNCHANGED <<alive, instance>>

\* APool::setSetupCallback(cb, poolName)
SetSetupCallback(cb, poolName) ==
    /\ Commit(Assign(Now, poolName, "setupCb", cb))
    /\ UNCHANGED <<alive, instance>>

\* APool::setReuseCallback(cb, poolName)
SetReuseCallback(cb, poolName) ==
    /\ Commit(Assign(Now, poolName, "reuseCb", cb))
    /\ UNCHANGED <<alive, instance>>

\* the value APool::currentConnections(poolName) returns
ConnectionCount(mp, poolName) ==
    IF poolName \in DOMAIN mp THEN mp[poolName].connectionCount ELSE 0

\* int APool::currentConnections(poolName): reads, changes nothing
CurrentConnections(poolName) ==
    /\ ConnectionCount(m_connectionPool, poolName) \in Int
    /\ Commit(Now)
    /\ UNCHANGED <<alive, instance>>

\* the environment: a receiver QObject is destroyed, its QPointers become null
ReceiverDestroyed(r) ==
    /\ r \in alive
    /\ alive' = alive \ {r}
    /\ Commit(Now)
    /\ UNCHANGED instance

Init ==
    /\ m_connectionPool = [n \in {} |-> APoolInternal("f1")]
    /\ drivers = [d \in DriverIds |-> NoDriver]
    /\ handles = [h \in HandleIds |-> NoHandle]
    /\ alive = Receivers
    /\ requests = [w \in RequestIds |-> NoRequest]
    /\ instance = [n \in Names |-> 0]
    /\ nOps = 0

Next ==
    \/ \E f \in Factories, n \in Names : Create(f, n)
    \/ \E n \in Names : Remove(n)
    \/ \E n \in Names : Database(n)
    \/ \E cb \in BOOLEAN, r \in alive \cup {NullReceiver}, n \in Names, st \in DriverStates :
          DatabaseCb(cb, r, n, st)
    \/ \E h \in HandleIds : CopyHandle(h)
    \/ \E h \in HandleIds, st \in DriverStates : DropHandle(h, st)
    \/ \E max \in Limits, n \in Names : SetMaxIdleConnections(max, n)
    \/ \E max \in Limits, n \in Names : SetMaxConnections(max, n)
    \/ \E cb \in BOOLEAN, n \in Names : SetSetupCallback(cb, n)
    \/ \E cb \in BOOLEAN, n \in Names : SetReuseCallback(cb, n)
    \/ \E n \in Names : CurrentConnections(n)
    \/ \E r \in Receivers : ReceiverDestroyed(r)

Spec == Init /\ [][Next]_vars

\* One pool, created and configured before the first acquisition, then only acquired
\* from and released to: the limits stay as set.
InitOnePool ==
    /\ \E idle \in Limits, total \in Limits :
          m_connectionPool = ("p1" :> [APoolInternal("f1") EXCEPT
                                          !.maxIdleConnections = idle,
                                          !.maximuConnections = total])
    /\ drivers = [d \in DriverIds |-> NoDriver]
    /\ handles = [h \in HandleIds |-> NoHandle]
    /\ alive = Receivers
    /\ requests = [w \in RequestIds |-> NoRequest]
    /\ instance = [n \in Names |-> IF n = "p1" THEN 1 ELSE 0]
    /\ nOps = 0

NextOnePool ==
    \/ Database("p1")
    \/ \E cb \in BOOLEAN, r \in alive \cup {NullReceiver}, st \in DriverStates :
          DatabaseCb(cb, r, "p1", st)
    \/ \E h \in HandleIds : CopyHandle(h)
    \/ \E h \in HandleIds, st \in DriverStates : DropHandle(h, st)
    \/ \E r \in Receivers : ReceiverDestroyed(r)

SpecOnePool == InitOnePool /\ [][NextOnePool]_vars

\* One pool whose limits were set to values that are not negative, with a maximum set.
InitLimitedPool ==
    /\ InitOnePool
    /\ m_connectionPool["p1"].maxIdleConnections >= 0
    /\ m_connectionPool["p1"].maximuConnections > 0

\* That pool with the assumption that the owners of the handles do not keep them for
\* ever: a handle that stays droppable is eventually dropped by an owner.
SpecOnePoolFair ==
    /\ InitLimitedPool
    /\ [][NextOnePool]_vars
    /\ \A h \in HandleIds : WF_vars(\E st \in DriverStates : DropHandle(h, st))

\* ---- vocabulary of the properties ----

Registered == DOMAIN m_connectionPool
IdleSet(n) == {m_connectionPool[n].pool[i] : i \in 1 .. Len(m_connectionPool[n].pool)}
Held == {h \in HandleIds : handles[h].status = "held"}
\* the handles the registered pool of name n handed out and that are not yet released
CheckedOut(n) == {h \in Held : handles[h].poolName = n /\ handles[h].inst = instance[n]}
\* this step runs the deleter of handle h
Releases(h) == handles[h].status = "held" /\ handles'[h].status = "released"
\* the last owner of h drops it while its driver reports state st
ReleaseStep(h, st) == handles[h].owners = 1 /\ DropHandle(h, st)
\* position of the earliest queued client that has a continuation and a live receiver, 0 if none
Earliest(q) ==
    IF \E i \in 1 .. Len(q) : ~Skipped(q[i])
    THEN CHOOSE i \in 1 .. Len(q) : ~Skipped(q[i]) /\ \A j \in 1 .. (i - 1) : Skipped(q[j])
    ELSE 0
HasValidWaiter(n) == n \in Registered /\ Earliest(m_connectionPool[n].connectionQueue) > 0

\* ---- C1 ----
\* C1: in every reachable state each registered pool has connectionCount equal to the
\* size of its idle vector plus the number of handles checked out from it.
C1_LiveCountBalance ==
    \A n \in Registered :
        m_connectionPool[n].connectionCount
            = Len(m_connectionPool[n].pool) + Cardinality(CheckedOut(n))

\* ---- C2 ----
\* C2 as stated: on one pool with fixed limits, a nonzero maximuConnections is never
\* exceeded by connectionCount.
C2_NeverExceedsMaxTotal ==
    \A n \in Registered :
        m_connectionPool[n].maximuConnections # 0
            => m_connectionPool[n].connectionCount <= m_connectionPool[n].maximuConnections

\* C2 amended: on one pool with fixed limits, a positive maximuConnections is never
\* exceeded by connectionCount.
C2_NeverExceedsPositiveMaxTotal ==
    \A n \in Registered :
        m_connectionPool[n].maximuConnections > 0
            => m_connectionPool[n].connectionCount <= m_connectionPool[n].maximuConnections

\* the pool is at its positive maximum and has turned an acquisition into a queued waiter
C2_AtMaxTotal ==
    \E n \in Registered :
        /\ m_connectionPool[n].maximuConnections > 0
        /\ m_connectionPool[n].connectionCount = m_connectionPool[n].maximuConnections
        /\ m_connectionPool[n].connectionQueue # <<>>

\* ---- C3 ----
\* C3 as stated: on one pool with fixed limits, whenever a release has completed the idle
\* vector is no longer than maxIdleConnections.
C3_IdleWithinMaxIdle ==
    [][(\E h \in HandleIds : Releases(h))
          => \A n \in DOMAIN m_connectionPool' :
                Len(m_connectionPool'[n].pool) <= m_connectionPool'[n].maxIdleConnections]_vars

\* C3 amended: the same for a maxIdleConnections that is not negative.
C3_IdleWithinNonNegativeMaxIdle ==
    [][(\E h \in HandleIds : Releases(h))
          => \A n \in DOMAIN m_connectionPool' :
                m_connectionPool'[n].maxIdleConnections >= 0
                   => Len(m_connectionPool'[n].pool)
                         <= m_connectionPool'[n].maxIdleConnections]_vars

\* the idle vector is at its limit and a released driver has been deleted
C3_IdleFull ==
    \E n \in Registered :
        /\ m_connectionPool[n].maxIdleConnections >= 1
        /\ Len(m_connectionPool[n].pool) = m_connectionPool[n].maxIdleConnections
        /\ \E d \in DriverIds : drivers[d].status = "deleted"

\* ---- C4 ----
\* the release of h hands its driver to the earliest valid waiter of its pool and changes
\* neither connectionCount, nor the idle vector, nor any driver
HandedToEarliest(h) ==
    LET n == handles[h].poolName
        q == m_connectionPool[n].connectionQueue
        w == q[Earliest(q)].req
    IN /\ requests[w].status = "queued"
       /\ requests'[w].status = "handed"
       /\ handles'[requests'[w].handle].status = "held"
       /\ handles'[requests'[w].handle].d = handles[h].d
       /\ handles'[requests'[w].handle].poolName = n
       /\ \A v \in RequestIds \ {w} :
             requests'[v].status = "handed" => requests[v].status = "handed"
       /\ n \in DOMAIN m_connectionPool'
       /\ m_connectionPool'[n].connectionCount = m_connectionPool[n].connectionCount
       /\ m_connectionPool'[n].pool = m_connectionPool[n].pool
       /\ drivers' = drivers

\* C4 as stated: a release while a valid waiter is queued always hands the driver to the
\* earliest valid waiter, inside the release, with connectionCount, idle vector and
\* drivers untouched.
C4_ReleaseServesWaiter ==
    [][\A h \in HandleIds, st \in DriverStates :
          (ReleaseStep(h, st) /\ HasValidWaiter(handles[h].poolName))
             => HandedToEarliest(h)]_vars

\* C4 amended: the same for a released driver whose state is not Disconnected.
C4_ConnectedReleaseServesWaiter ==
    [][\A h \in HandleIds, st \in DriverStates :
          (ReleaseStep(h, st) /\ st # "Disconnected"
             /\ HasValidWaiter(handles[h].poolName))
             => HandedToEarliest(h)]_vars

\* a waiter's continuation has been called from a release and it still holds the handle
C4_WaiterServed ==
    \E w \in RequestIds :
        /\ requests[w].status = "handed"
        /\ handles[requests[w].handle].status = "held"

\* ---- C5 ----
\* C5: a driver is only ever in the idle vector of, or wrapped in a handle of, the pool
\* instance that created it.
C5_OwnPoolOnly ==
    /\ \A n \in Registered : \A d \in IdleSet(n) :
          drivers[d].home = n /\ drivers[d].origin = instance[n]
    /\ \A h \in Held :
          /\ drivers[handles[h].d].home = handles[h].poolName
          /\ drivers[handles[h].d].origin = handles[h].inst

\* ---- C6 ----
\* C6: the deleter of a handle runs exactly once, in the step in which its last owner
\* drops it (for the local db of a callback acquisition without continuation, the step
\* that created it): not while another owner remains, not twice, and not skipped.
C6_ReleaseExactlyOnce ==
    /\ [](\A h \in HandleIds :
            /\ handles[h].runs <= 1
            /\ handles[h].status = "held" => (handles[h].runs = 0 /\ handles[h].owners >= 1)
            /\ handles[h].status = "released" <=> handles[h].runs = 1)
    /\ [][\A h \in HandleIds :
            /\ handles'[h].runs # handles[h].runs
                  => \/ handles[h].status = "held" /\ handles[h].owners = 1
                     \/ handles[h].status = "unused" /\ handles'[h].status = "released"
            /\ (handles[h].status = "held" /\ handles[h].owners > 1)
                  => handles'[h].status = "held"
            /\ (handles[h].status = "held" /\ handles'[h].status # "held")
                  => handles'[h].runs = 1]_vars

\* one handle was released and its deleter ran once, while another handle has two owners
C6_Released ==
    \E h \in HandleIds :
        /\ handles[h].status = "released"
        /\ handles[h].runs = 1
        /\ \E g \in Held : handles[g].owners = 2

\* ---- C7 ----
\* C7: no two handles wrap the same driver, no driver is both idle and wrapped in a
\* handle, and no driver is twice in the idle vectors.
C7_NoSharedDriver ==
    /\ \A g, h \in Held : g # h => handles[g].d # handles[h].d
    /\ \A h \in Held : \A n \in Registered : handles[h].d \notin IdleSet(n)
    /\ \A n \in Registered :
          Cardinality(IdleSet(n)) = Len(m_connectionPool[n].pool)
    /\ \A m, n \in Registered : m # n => IdleSet(m) \cap IdleSet(n) = {}

\* the only driver ever created was released to the idle vector and is checked out again
C7_Reused ==
    /\ UnusedDrivers(drivers) = DriverIds \ {1}
    /\ drivers[1].status = "live"
    /\ \E g \in HandleIds : handles[g].status = "released"
    /\ \E h \in Held : handles[h].d = 1
    /\ \A w \in RequestIds : requests[w].status = "unused"

\* ---- C8 ----
\* C8: a deleted driver is in no idle vector and in no handle.
C8_NoUseAfterDelete ==
    \A d \in DriverIds :
        drivers[d].status = "deleted"
           => /\ \A n \in Registered : d \notin IdleSet(n)
              /\ \A h \in Held : handles[h].d # d

\* a driver was deleted by a release and a later acquisition has handed out another one
C8_AcquiredAfterDelete ==
    /\ drivers[1].status = "deleted"
    /\ \E h \in Held : handles[h].d = 2

\* ---- C9 ----
\* the release of h appends its driver to the idle vector of its pool and deletes nothing
AppendedToIdle(h) ==
    LET n == handles[h].poolName
    IN /\ n \in DOMAIN m_connectionPool'
       /\ m_connectionPool'[n].pool = Append(m_connectionPool[n].pool, handles[h].d)
       /\ m_connectionPool'[n].connectionCount = m_connectionPool[n].connectionCount
       /\ drivers' = drivers

\* the pool named n is registered, has no waiter and has room in its idle vector
RoomInIdle(n) ==
    /\ n \in Registered
    /\ m_connectionPool[n].connectionQueue = <<>>
    /\ Len(m_connectionPool[n].pool) < m_connectionPool[n].maxIdleConnections

\* C9 as stated: a release to a registered pool without waiters and with room in its idle
\* vector always appends the driver to the idle vector, deletes nothing and leaves
\* connectionCount alone.
C9_ReleaseGoesIdle ==
    [][\A h \in HandleIds, st \in DriverStates :
          (ReleaseStep(h, st) /\ RoomInIdle(handles[h].poolName)) => AppendedToIdle(h)]_vars

\* C9 amended: the same for a released driver whose state is not Disconnected.
C9_ConnectedReleaseGoesIdle ==
    [][\A h \in HandleIds, st \in DriverStates :
          (ReleaseStep(h, st) /\ st # "Disconnected" /\ RoomInIdle(handles[h].poolName))
             => AppendedToIdle(h)]_vars

\* a released driver sits in the idle vector of the pool that created it
C9_Idle ==
    \E n \in Registered :
        /\ m_connectionPool[n].pool # <<>>
        /\ \A d \in IdleSet(n) : drivers[d].home = n /\ drivers[d].origin = instance[n]
        /\ \E h \in HandleIds : handles[h].status = "released"

\* ---- C10 ----
\* the pool instance that handed out h has been removed
Orphaned(h) ==
    \/ handles[h].poolName \notin Registered
    \/ instance[handles[h].poolName] # handles[h].inst

\* C10: the release of a handle whose pool was removed while it was held deletes the
\* driver and changes no registered pool (and registers none).
C10_OrphanIsDeleted ==
    [][\A h \in HandleIds, st \in DriverStates :
          (ReleaseStep(h, st) /\ Orphaned(h))
             => /\ drivers'[handles[h].d].status = "deleted"
                /\ m_connectionPool' = m_connectionPool]_vars

\* ---- C11 ----
\* C11: create on a name that is already registered changes nothing: the pool of that
\* name keeps its factory, idle vector, queue, connectionCount, limits and hooks, the
\* registry keeps the same names, and no driver, handle or request is touched.
C11_DuplicateCreateIsNoOp ==
    [][\A f \in Factories, n \in Names :
          (n \in Registered /\ Create(f, n))
             => /\ DOMAIN m_connectionPool' = DOMAIN m_connectionPool
                /\ m_connectionPool'[n] = m_connectionPool[n]
                /\ m_connectionPool' = m_connectionPool
                /\ drivers' = drivers
                /\ handles' = handles
                /\ requests' = requests]_vars

\* a pool that no longer looks like a new one (it has a driver checked out and limits
\* that are not the defaults) is still registered after a further call changed nothing
C11_ConfiguredPoolKept ==
    \E n \in Registered :
        /\ instance[n] = 1
        /\ m_connectionPool[n].maxIdleConnections # 1
        /\ m_connectionPool[n].connectionCount = 1
        /\ CheckedOut(n) # {}
        /\ nOps = 4

\* ---- C12 ----
\* the pool named n is registered, has no idle driver and a nonzero maximuConnections
\* that connectionCount has reached
Exhausted(n) ==
    /\ n \in Registered
    /\ m_connectionPool[n].pool = <<>>
    /\ m_connectionPool[n].maximuConnections # 0
    /\ m_connectionPool[n].connectionCount >= m_connectionPool[n].maximuConnections

\* request w waits in the queue of the pool named n
InQueue(w, n) ==
    \E i \in 1 .. Len(m_connectionPool[n].connectionQueue) :
        m_connectionPool[n].connectionQueue[i].req = w

\* this step runs pushDatabaseBack on the pool named n: a held handle of that name loses
\* its last owner, or a callback acquisition without continuation drops its local db
ReleaseOn(n) ==
    \/ \E h \in HandleIds : Releases(h) /\ handles[h].poolName = n
    \/ \E h \in HandleIds :
          /\ handles[h].status = "unused"
          /\ handles'[h].status = "released"
          /\ \E r \in Receivers \cup {NullReceiver}, st \in DriverStates :
                DatabaseCb(FALSE, r, n, st)

\* C12: a callback acquisition on an exhausted pool appends exactly one client, its own,
\* at the tail of the queue and returns: the continuation is not called, connectionCount,
\* the idle vector, the drivers and the handles are unchanged; and a queued continuation
\* is only ever called (with a handle) in a step that runs a release on its pool.
C12_QueuedUntilRelease ==
    /\ [][\A cb \in BOOLEAN, r \in Receivers \cup {NullReceiver}, n \in Names,
             st \in DriverStates :
             (Exhausted(n) /\ DatabaseCb(cb, r, n, st))
                => LET w == FreshRequest(requests)
                       q == m_connectionPool[n].connectionQueue
                       q2 == m_connectionPool'[n].connectionQueue
                   IN /\ n \in DOMAIN m_connectionPool'
                      /\ Len(q2) = Len(q) + 1
                      /\ SubSeq(q2, 1, Len(q)) = q
                      /\ q2[Len(q2)].req = w
                      /\ q2[Len(q2)].cb = cb
                      /\ q2[Len(q2)].receiver = r
                      /\ requests'[w] = [status |-> "queued", handle |-> 0]
                      /\ \A v \in RequestIds \ {w} : requests'[v] = requests[v]
                      /\ m_connectionPool'[n].connectionCount
                            = m_connectionPool[n].connectionCount
                      /\ m_connectionPool'[n].pool = m_connectionPool[n].pool
                      /\ drivers' = drivers
                      /\ handles' = handles]_vars
    /\ [][\A w \in RequestIds :
             (requests[w].status = "queued" /\ requests'[w].status \in {"handed", "invoked"})
                => /\ requests'[w].status = "handed"
                   /\ handles'[requests'[w].handle].status = "held"
                   /\ \E n \in Registered : InQueue(w, n) /\ ReleaseOn(n)]_vars

\* the first queued request has been served by a release while the second still waits
C12_FirstServedSecondWaits ==
    /\ requests[1].status = "handed"
    /\ requests[2].status = "queued"
    /\ \E n \in Registered : InQueue(2, n) /\ Len(m_connectionPool[n].connectionQueue) = 1

\* ---- C13 ----
\* C13: a synchronous acquisition on an exhausted pool returns an ADatabase without a
\* driver: no control block is created (so no deleter exists that a drop could run), no
\* driver is created, and the registry with connectionCount, idle vector and queue of
\* every pool, and the requests, are unchanged.
C13_ExhaustedSyncAcquire ==
    [][\A n \in Names :
          (Exhausted(n) /\ Database(n))
             => /\ handles' = handles
                /\ drivers' = drivers
                /\ m_connectionPool' = m_connectionPool
                /\ requests' = requests]_vars

\* the pool has its one allowed driver checked out and a second synchronous acquisition
\* has returned without a driver: two calls were made, one handle and one driver exist
C13_SecondAcquireRefused ==
    /\ nOps = 2
    /\ Exhausted("p1")
    /\ m_connectionPool["p1"].maximuConnections = 1
    /\ m_connectionPool["p1"].connectionCount = 1
    /\ m_connectionPool["p1"].connectionQueue = <<>>
    /\ Held = {1} /\ handles[1].owners = 1
    /\ UnusedHandles(handles) = HandleIds \ {1}
    /\ UnusedDrivers(drivers) = DriverIds \ {1}
    /\ UnusedRequests(requests) = RequestIds
    /\ alive = Receivers

\* ---- C14 ----
\* request w waits in the queue of the pool named n and its receiver has been destroyed
ExpiredWaiter(w, n) ==
    \E i \in 1 .. Len(m_connectionPool[n].connectionQueue) :
        /\ m_connectionPool[n].connectionQueue[i].req = w
        /\ Expired(m_connectionPool[n].connectionQueue[i])

\* this step runs pushDatabaseBack on the pool named n with a driver that is not
\* Disconnected
ConnectedReleaseOn(n) ==
    \E h \in HandleIds, st \in DriverStates \ {"Disconnected"} :
        \/ handles[h].poolName = n /\ ReleaseStep(h, st)
        \/ /\ handles[h].status = "unused"
           /\ handles'[h].status = "released"
           /\ \E r \in Receivers \cup {NullReceiver} : DatabaseCb(FALSE, r, n, st)

\* C14: on a pool that stays registered, a waiter whose receiver is gone is never handed a
\* connection; it leaves the queue only in a release of a driver that is not Disconnected,
\* and then as discarded; once discarded it is never invoked; and the destruction of the
\* receiver itself takes nothing out of any queue.
C14_ExpiredWaiterDiscarded ==
    /\ [][\A w \in RequestIds, n \in Names :
             (n \in Registered /\ ExpiredWaiter(w, n))
                => /\ n \in DOMAIN m_connectionPool'
                   /\ requests'[w].status \in {"queued", "expired"}
                   /\ requests'[w].handle = 0
                   /\ requests'[w].status = "queued"
                         <=> \E i \in 1 .. Len(m_connectionPool'[n].connectionQueue) :
                                m_connectionPool'[n].connectionQueue[i].req = w
                   /\ requests'[w].status = "expired" => ConnectedReleaseOn(n)]_vars
    /\ [][\A w \in RequestIds :
             requests[w].status = "expired" => requests'[w] = requests[w]]_vars
    /\ [][\A r \in Receivers :
             ReceiverDestroyed(r)
                => m_connectionPool' = m_connectionPool /\ requests' = requests]_vars

\* a waiter whose receiver was destroyed has been discarded by a release that left its
\* driver in the idle vector
C14_ExpiredGone ==
    \E w \in RequestIds, n \in Registered :
        /\ requests[w].status = "expired"
        /\ m_connectionPool[n].pool # <<>>
        /\ m_connectionPool[n].connectionQueue = <<>>
        /\ alive = {}

\* ---- C15 ----
\* C15: the release of a Disconnected driver to a registered pool deletes that driver and
\* decrements the pool's connectionCount by one, and changes nothing else: the idle
\* vector, the queue (valid waiters included), the other pools, the other drivers, the
\* requests and the other handles stay as they are.
C15_DisconnectedReleaseDeletes ==
    [][\A h \in HandleIds :
          (ReleaseStep(h, "Disconnected") /\ handles[h].poolName \in Registered)
             => LET n == handles[h].poolName
                IN /\ drivers' = [drivers EXCEPT ![handles[h].d] = Deleted]
                   /\ m_connectionPool'
                         = [m_connectionPool EXCEPT ![n].connectionCount = @ - 1]
                   /\ requests' = requests
                   /\ handles'[h].status = "released"
                   /\ \A g \in HandleIds \ {h} : handles'[g] = handles[g]]_vars

\* a driver has been deleted and connectionCount is below a positive maximuConnections
\* while a valid waiter is still queued
C15_WaiterLeftQueued ==
    \E n \in Registered :
        /\ HasValidWaiter(n)
        /\ m_connectionPool[n].maximuConnections > 0
        /\ m_connectionPool[n].connectionCount < m_connectionPool[n].maximuConnections
        /\ \E d \in DriverIds : drivers[d].status = "deleted"

\* ---- C16 ----
\* the pool named n is registered, has no valid waiter and an idle vector at or over
\* maxIdleConnections
IdleFull(n) ==
    /\ n \in Registered
    /\ ~HasValidWaiter(n)
    /\ Len(m_connectionPool[n].pool) >= m_connectionPool[n].maxIdleConnections

\* C16: the release of a driver that is not Disconnected to a pool without valid waiter
\* whose idle vector is at or over maxIdleConnections deletes the driver, decrements
\* connectionCount by one and leaves the idle vector unchanged; with maxIdleConnections 0,
\* one driver checked out and none idle, it ends with an empty idle vector and
\* connectionCount 0.
C16_FullIdleReleaseDeletes ==
    [][\A h \in HandleIds, st \in DriverStates \ {"Disconnected"} :
          (ReleaseStep(h, st) /\ IdleFull(handles[h].poolName))
             => LET n == handles[h].poolName
                IN /\ n \in DOMAIN m_connectionPool'
                   /\ drivers' = [drivers EXCEPT ![handles[h].d] = Deleted]
                   /\ m_connectionPool'[n].connectionCount
                         = m_connectionPool[n].connectionCount - 1
                   /\ m_connectionPool'[n].pool = m_connectionPool[n].pool
                   /\ (/\ m_connectionPool[n].maxIdleConnections = 0
                       /\ m_connectionPool[n].connectionCount = 1
                       /\ m_connectionPool[n].pool = <<>>)
                         => /\ m_connectionPool'[n].pool = <<>>
                            /\ m_connectionPool'[n].connectionCount = 0]_vars

\* a pool with maxIdleConnections 0 has created one driver and seen it released: the
\* driver is deleted, the idle vector is empty and connectionCount is back at 0
C16_NothingKept ==
    \E n \in Registered :
        /\ m_connectionPool[n].maxIdleConnections = 0
        /\ m_connectionPool[n].pool = <<>>
        /\ m_connectionPool[n].connectionCount = 0
        /\ drivers[1].status = "deleted"
        /\ UnusedDrivers(drivers) = DriverIds \ {1}
        /\ UnusedRequests(requests) = RequestIds
        /\ handles[1].status = "released"
        /\ UnusedHandles(handles) = HandleIds \ {1}

\* ---- C17 ----
\* C17: the registry only gains a name in a step of create; and on a name that is not
\* registered the four setters, currentConnections and both acquisitions leave the
\* registry, the drivers and the handles unchanged, currentConnections returns 0, the
\* synchronous acquisition creates no control block and the callback acquisition calls
\* its continuation, if any, with an ADatabase without driver.
C17_OnlyCreateRegisters ==
    /\ [](\A n \in Names \ Registered : ConnectionCount(m_connectionPool, n) = 0)
    /\ [][(DOMAIN m_connectionPool' \subseteq DOMAIN m_connectionPool)
             \/ \E f \in Factories, n \in Names \ Registered :
                   /\ Create(f, n)
                   /\ DOMAIN m_connectionPool' = DOMAIN m_connectionPool \cup {n}]_vars
    /\ [][\A n \in Names \ Registered :
             /\ (\/ \E max \in Limits : SetMaxIdleConnections(max, n)
                 \/ \E max \in Limits : SetMaxConnections(max, n)
                 \/ \E cb \in BOOLEAN : SetSetupCallback(cb, n)
                 \/ \E cb \in BOOLEAN : SetReuseCallback(cb, n)
                 \/ CurrentConnections(n)
                 \/ Database(n))
                   => /\ m_connectionPool' = m_connectionPool
                      /\ drivers' = drivers
                      /\ handles' = handles
                      /\ requests' = requests
             /\ \A cb \in BOOLEAN, r \in Receivers \cup {NullReceiver}, st \in DriverStates :
                   DatabaseCb(cb, r, n, st)
                      => /\ m_connectionPool' = m_connectionPool
                         /\ drivers' = drivers
                         /\ handles' = handles
                         /\ requests'[FreshRequest(requests)]
                               = [status |-> (IF cb THEN "invoked" ELSE "dropped"),
                                  handle |-> 0]]_vars

\* a continuation has been called with an ADatabase without driver, which only an
\* acquisition on a name that is not registered does, and the other name is registered
C17_CalledWithoutDriver ==
    /\ \E w \in RequestIds : requests[w].status = "invoked" /\ requests[w].handle = 0
    /\ Cardinality(Registered) = 1
    /\ \A n \in Names : instance[n] <= 1 /\ (n \in Registered <=> instance[n] = 1)

\* ---- C18 ----
\* request w waits in a queue with a continuation to call
WaitsWithCb(w) ==
    \E n \in Registered :
        \E i \in 1 .. Len(m_connectionPool[n].connectionQueue) :
            /\ m_connectionPool[n].connectionQueue[i].req = w
            /\ m_connectionPool[n].connectionQueue[i].cb

\* C18: if the pool stays registered, no receiver is ever destroyed and every handle that
\* is held is eventually released, then every request that waits in the queue with a
\* continuation is eventually handed a connection.
C18_WaiterEventuallyServed ==
    (/\ []("p1" \in Registered)
     /\ [](alive = Receivers)
     /\ \A h \in HandleIds : (handles[h].status = "held") ~> (handles[h].status # "held"))
        => \A w \in RequestIds : WaitsWithCb(w) ~> (requests[w].status = "handed")

\* ---- C19 ----
\* C19: on one pool with fixed limits, whenever the queue is not empty the pool is
\* exhausted: its idle vector is empty, maximuConnections is nonzero and connectionCount
\* has reached it (so an acquisition now would be queued behind the waiters, not served).
C19_QueueOnlyWhenExhausted ==
    \A n \in Registered :
        m_connectionPool[n].connectionQueue # <<>>
            => /\ m_connectionPool[n].pool = <<>>
               /\ m_connectionPool[n].maximuConnections # 0
               /\ m_connectionPool[n].connectionCount
                     >= m_connectionPool[n].maximuConnections

\* ---- C20 ----
\* C20: every driver that was created and not deleted is in the idle vector of a
\* registered pool or wrapped in a handle that is held.
C20_NoDriverLeaked ==
    \A d \in DriverIds :
        drivers[d].status = "live"
            => \/ \E n \in Registered : d \in IdleSet(n)
               \/ \E h \in Held : handles[h].d = d

====
